---- MODULE Spec2Model ----
(***************************************************************************)
(* BERelaxFit (pycroscopy/analysis/be_relax_fit.py): the read/write step   *)
(* partition built by the constructor, the per-chunk signal                *)
(* reconstruction, the creation of the results datasets and the chunk      *)
(* commit with its last_pixel cursor.                                      *)
(*                                                                         *)
(* Step indices, pixel indices and chunk positions are 0-based as in the   *)
(* code; TLA+ sequences are 1-based, so element k of a Python list is      *)
(* element k+1 of the sequence that models it.                             *)
(***************************************************************************)
EXTENDS Integers, Sequences, FiniteSets

\* ---------------------------------------------------------------- bounds
MaxCycles == 2
MaxReads == 2
MaxWrites == 2
MaxSkew == 2
MaxPixels == 2
MaxInterrupts == 1
MaxCommits == 2

\* ------------------------------------------------------ configuration sets
\* starts_with: the constructor compares with the strings (lines 50, 59), the
\* docstring (line 16) and _read_data_chunk (lines 105, 110) use the integers
\* 1 and 0, written here "int1" and "int0".
StartsWithValues == {"write", "read", "int1", "int0"}

\* fit_method: the four documented names (line 13) and one that is none of them.
SupportedMethods == {"Exponential", "Double_Exp", "Str_Exp", "Logistic"}

FitMethodValues == SupportedMethods \cup {"Gaussian"}

\* The two synthetic datasets the pipeline is run on (ascending / descending
\* amplitudes), see RawAmp.
DataVariants == {"asc", "desc"}

\* ------------------------------------------------------- sequence helpers
Min(a, b) == IF a < b THEN a ELSE b

Max(a, b) == IF a > b THEN a ELSE b

Range(s) == {s[k] : k \in DOMAIN s}

\* np.arange(lo, hi)
Arange(lo, hi) == [k \in 1..Max(hi - lo, 0) |-> lo + k - 1]

\* Python s[a:] for a >= 0
SliceFrom(s, a) == SubSeq(s, Min(a, Len(s)) + 1, Len(s))

\* Python s[:stop]; a negative stop counts from the end, and -0 is 0
SliceTo(s, stop) ==
    IF stop < 0 THEN SubSeq(s, 1, Max(Len(s) + stop, 0))
    ELSE SubSeq(s, 1, Min(stop, Len(s)))

RECURSIVE Flatten(_)
Flatten(ss) == IF ss = <<>> THEN <<>> ELSE Head(ss) \o Flatten(Tail(ss))

RECURSIVE SortedSeq(_)
\* the elements of a finite set of integers in ascending order
SortedSeq(S) ==
    IF S = {} THEN <<>>
    ELSE LET m == CHOOSE x \in S : \A y \in S : x <= y
         IN <<m>> \o SortedSeq(S \ {m})

\* ------------------------------------------------------------- partition
\* np.array_split(np.arange(0, n), k): k contiguous blocks, the first n % k of
\* them one element longer.
ArraySplit(n, k) ==
    [i \in 1..k |->
        LET q == n \div k
            r == n % k
            lo == (i - 1) * q + Min(i - 1, r)
            sz == q + (IF i - 1 < r THEN 1 ELSE 0)
        IN Arange(lo, lo + sz)]

\* whether a list of arrays is rectangular (np.asarray gives a 2-D array)
Rectangular(ss) == \A i, j \in DOMAIN ss : Len(ss[i]) = Len(ss[j])

\* np.setxor1d(a, b) on the flattened inputs: the sorted values in exactly one
SetXor1d(a, b) ==
    LET A == Range(Flatten(a))
        B == Range(Flatten(b))
    IN SortedSeq((A \ B) \cup (B \ A))

\* np.split(s, k): k equal groups; the caller checks divisibility
SplitEqual(s, k) ==
    [i \in 1..k |-> SubSeq(s, (i - 1) * (Len(s) \div k) + 1, i * (Len(s) \div k))]

\* ReadInds with the 'read' slice one element short (an off-by-one at line 61)
ReadIndsShort(blocks, sw, nw) ==
    IF sw = "write" THEN [i \in DOMAIN blocks |-> SliceFrom(blocks[i], nw)]
    ELSE IF sw = "read" THEN [i \in DOMAIN blocks |-> SliceTo(blocks[i], 0 - nw - 1)]
    ELSE <<>>

\* lines 50-67: the read indices of each cycle's block; for a starts_with that
\* is neither string no branch runs and the list stays empty
ReadInds(blocks, sw, nw) ==
    IF sw = "write" THEN [i \in DOMAIN blocks |-> SliceFrom(blocks[i], nw)]
    ELSE IF sw = "read" THEN [i \in DOMAIN blocks |-> SliceTo(blocks[i], 0 - nw)]
    ELSE <<>>

\* lines 45-71: the outcome of the constructor's partitioning
Partition(nsteps, cycles, nw, sw) ==
    LET nrs == (2 * cycles) \div 2
        blocks == ArraySplit(nsteps, nrs)
        reads == ReadInds(blocks, sw, nw)
        xor == SetXor1d(blocks, reads)
    IN IF ~Rectangular(blocks) \/ Len(xor) % nrs # 0
       THEN [err |-> "ValueError", no_rs_spectra |-> nrs, all_inds_split |-> blocks,
             read_inds_split |-> reads, write_inds_split |-> <<>>,
             no_read_offset |-> 2 * cycles - nrs]
       ELSE [err |-> "none", no_rs_spectra |-> nrs, all_inds_split |-> blocks,
             read_inds_split |-> reads, write_inds_split |-> SplitEqual(xor, nrs),
             no_read_offset |-> 2 * cycles - nrs]

\* ------------------------------------------------------------------ state
VARIABLES
    pc, err,
    \* the dataset and the constructor's arguments
    num_steps, cycles, no_read_steps, no_write_steps, num_pixels, variant,
    starts_with, fit_method, sensitivity, phase_offset, max_pos_per_read,
    \* the partition (lines 45-71)
    no_rs_spectra, all_inds_split, read_inds_split, write_inds_split, no_read_offset,
    \* the chunk in flight
    start_pos, end_pos, data, write_spectra, results,
    \* the results group and dataset
    process_name, h5_results_bound, file, disk,
    \* history: the start of the commit in progress and the dataset before it,
    \* how often each pixel's rows were written, whether this instance follows
    \* an interrupted one, counters
    commit_start, commit_before, commits, resumed, interrupts, ncommits

meta == <<num_steps, cycles, no_read_steps, no_write_steps, num_pixels, variant,
          starts_with, fit_method, sensitivity, phase_offset, max_pos_per_read>>

part == <<no_rs_spectra, all_inds_split, read_inds_split, write_inds_split, no_read_offset>>

chunk == <<start_pos, end_pos, data, write_spectra, results>>

store == <<process_name, h5_results_bound, file, disk>>

hist == <<commit_start, commit_before, commits, resumed, interrupts, ncommits>>

vars == <<pc, err, meta, part, chunk, store, hist>>

NoFile == [grp |-> FALSE, last_pixel |-> 0, algorithm |-> "none", dset |-> <<>>]

NoData == [kind |-> "none", val |-> <<>>]

Init ==
    /\ pc = "new" /\ err = "none"
    /\ num_steps = 0 /\ cycles = 0 /\ no_read_steps = 0 /\ no_write_steps = 0
    /\ num_pixels = 0 /\ variant = "asc" /\ starts_with = "write"
    /\ fit_method = "Exponential" /\ sensitivity = 1 /\ phase_offset = 0
    /\ max_pos_per_read = 0
    /\ no_rs_spectra = 0 /\ all_inds_split = <<>> /\ read_inds_split = <<>>
    /\ write_inds_split = <<>> /\ no_read_offset = 0
    /\ start_pos = 0 /\ end_pos = 0 /\ data = NoData /\ write_spectra = <<>>
    /\ results = <<>>
    /\ process_name = "None" /\ h5_results_bound = FALSE
    /\ file = NoFile /\ disk = NoFile
    /\ commit_start = 0 /\ commit_before = <<>> /\ commits = <<>> /\ resumed = FALSE
    /\ interrupts = 0 /\ ncommits = 0

\* --------------------------------------------------------- the constructor
\* (sens, phase_off) pairs the pipeline is constructed with; (1, 0) are the
\* defaults of line 7. phase_off is in units of pi.
MixSettings == {<<1, 0>>, <<2, 1>>}

\* lines 7-71: BERelaxFit.__init__ on a dataset of np pixels and ns steps
Construct ==
    /\ pc = "new"
    /\ \E c \in 1..MaxCycles, nr \in 1..MaxReads, nw \in 1..MaxWrites,
          skew \in 0..MaxSkew, np \in 1..MaxPixels, v \in DataVariants,
          sw \in StartsWithValues, fm \in FitMethodValues, ms \in MixSettings :
         \E mp \in 1..np :
           LET ns == c * (nr + nw) + skew
               p == Partition(ns, c, nw, sw)
           IN /\ num_steps' = ns /\ cycles' = c
              /\ no_read_steps' = nr /\ no_write_steps' = nw
              /\ num_pixels' = np /\ variant' = v
              /\ starts_with' = sw /\ fit_method' = fm
              /\ sensitivity' = ms[1] /\ phase_offset' = ms[2]
              /\ max_pos_per_read' = mp
              /\ no_rs_spectra' = p.no_rs_spectra
              /\ all_inds_split' = p.all_inds_split
              /\ read_inds_split' = p.read_inds_split
              /\ write_inds_split' = p.write_inds_split
              /\ no_read_offset' = p.no_read_offset
              /\ err' = p.err
              /\ pc' = IF p.err = "none" THEN "constructed" ELSE "failed"
              /\ commits' = [q \in 1..np |-> 0]
    /\ UNCHANGED <<chunk, store, commit_start, commit_before, resumed, interrupts,
                   ncommits>>

\* ------------------------------------------------------------ raw dataset
\* The dataset's amplitude at pixel p, step s (0-based): every sample of the
\* dataset has its own value, so a signal shows which samples it was built from.
RawAmp(p, s) ==
    IF variant = "asc" THEN 1 + p * num_steps + s
    ELSE num_pixels * num_steps - (p * num_steps + s)

\* The dataset's phase at pixel p, step s, in units of pi
RawPhase(p, s) == (p + s) % 2

\* np.cos at an integer multiple k of pi
CosPi(k) == IF k % 2 = 0 THEN 1 ELSE 0 - 1

\* lines 102-103: amp * sens * cos(phase + phase_off)
Mix(amp, phase) == amp * sensitivity * CosPi(phase + phase_offset)

\* the mixed samples of pixel p at the step indices inds
SignalAt(p, inds) == [k \in DOMAIN inds |-> Mix(RawAmp(p, inds[k]), RawPhase(p, inds[k]))]

\* ------------------------------------------------- _create_results_datasets
\* lines 147-168: the field names of the results dataset
CreateFieldNames(m) ==
    IF m = "Exponential" THEN <<"Amplitude [pm]", "Time_Constant [s]", "Offset [pm]">>
    ELSE IF m = "Double_Exp" THEN <<"Amplitude [pm]", "Time_Constant [s]",
                                    "Amplitude 2 [pm]", "Time_Constant 2 [s]", "Offset [pm]">>
    ELSE IF m = "Str_Exp" THEN <<"Amplitude [pm]", "Beta", "Offset [pm]">>
    ELSE IF m = "Logistic" THEN <<"A", "K", "B", "v", "Q", "C">>
    ELSE <<>>

\* ProcessName with a default branch: an unknown name is treated as 'Exponential'
ProcessNameDefault(m) ==
    IF m = "Double_Exp" THEN "Double_Exp"
    ELSE IF m = "Str_Exp" THEN "Str_Exp"
    ELSE IF m = "Logistic" THEN "Logistic_Fit"
    ELSE "Exp_Fit"

\* lines 125-132: process_name after the four ifs; "None" is the value the
\* base class leaves when no branch assigns it
ProcessName(m) ==
    IF m = "Exponential" THEN "Exp_Fit"
    ELSE IF m = "Double_Exp" THEN "Double_Exp"
    ELSE IF m = "Str_Exp" THEN "Str_Exp"
    ELSE IF m = "Logistic" THEN "Logistic_Fit"
    ELSE "None"

\* lines 173-178: the empty dataset, one zero record per (pixel, bias column)
EmptyDataset(m, np, ncols) ==
    [p \in 1..np |-> [c \in 1..ncols |-> [f \in Range(CreateFieldNames(m)) |-> 0]]]

\* lines 124-179. create_results_group rejects a tool name that is not a string
\* (line 134); write_dc_offset_values (line 144) is only assigned by the
\* constructor's 'write' and 'read' branches.
CreateResults ==
    /\ pc = "constructed" /\ ~file.grp
    /\ process_name' = ProcessName(fit_method)
    /\ IF ProcessName(fit_method) = "None"
       THEN /\ pc' = "failed" /\ err' = "TypeError"
            /\ UNCHANGED <<file, disk, h5_results_bound>>
       ELSE IF starts_with \notin {"write", "read"}
       THEN /\ pc' = "failed" /\ err' = "AttributeError"
            /\ file' = [grp |-> TRUE, last_pixel |-> 0, algorithm |-> fit_method,
                        dset |-> <<>>]
            /\ UNCHANGED <<disk, h5_results_bound>>
       ELSE /\ pc' = "ready" /\ err' = "none"
            /\ file' = [grp |-> TRUE, last_pixel |-> 0, algorithm |-> fit_method,
                        dset |-> EmptyDataset(fit_method, num_pixels, no_read_offset)]
            /\ disk' = file'
            /\ h5_results_bound' = TRUE
    /\ UNCHANGED <<meta, part, chunk, hist>>

\* lines 234-235: _get_existing_datasets binds nothing; the driver has taken the
\* existing group and its last_pixel
Resume ==
    /\ pc = "constructed" /\ file.grp
    /\ pc' = "ready"
    /\ start_pos' = file.last_pixel
    /\ UNCHANGED <<err, meta, part, end_pos, data, write_spectra, results, store, hist>>

\* --------------------------------------------------------- _read_data_chunk
\* lines 98-114 on a chunk holding the rows of pixels first .. first + nrows - 1
Reconstruct(first, nrows) ==
    IF num_pixels > nrows \/ no_read_offset > Len(read_inds_split)
    THEN [err |-> "IndexError", data |-> <<>>, write_spectra |-> <<>>]
    ELSE [err |-> "none",
          data |-> [n \in 1..(num_pixels * no_read_offset) |->
                      SignalAt(first + (n - 1) \div no_read_offset,
                               read_inds_split[((n - 1) % no_read_offset) + 1])],
          write_spectra |->
              IF starts_with = "int1"
              THEN [n \in 1..(num_pixels * no_read_offset) |->
                      SignalAt(first + (n - 1) \div no_read_offset,
                               SliceTo(Arange(0, num_steps), no_write_steps))]
              ELSE IF starts_with = "int0"
              THEN [n \in 1..(num_pixels * no_read_offset) |->
                      SignalAt(first + (n - 1) \div no_read_offset,
                               SliceFrom(Arange(0, num_steps), no_read_steps))]
              ELSE <<>>]

\* lines 82-122, with the base class's read (line 87) of up to
\* max_pos_per_read positions from start_pos
ReadChunk ==
    /\ pc \in {"ready", "written"}
    /\ IF start_pos < num_pixels
       THEN LET e == Min(num_pixels, start_pos + max_pos_per_read)
                r == Reconstruct(start_pos, e - start_pos)
            IN /\ end_pos' = e
               /\ IF r.err = "none"
                  THEN /\ data' = [kind |-> "mixed", val |-> r.data]
                       /\ write_spectra' = r.write_spectra
                       /\ pc' = "read" /\ err' = "none"
                  ELSE /\ data' = [kind |-> "raw", val |-> Arange(start_pos, e)]
                       /\ UNCHANGED write_spectra
                       /\ pc' = "failed" /\ err' = r.err
       ELSE /\ data' = NoData /\ pc' = "done"
            /\ UNCHANGED <<err, end_pos, write_spectra>>
    /\ UNCHANGED <<meta, part, start_pos, results, store, hist>>

\* ------------------------------------------------------------ _map_function
\* The fit routines of fit_methods: one parameter vector per signal, of the
\* model's arity (3, 5, 3, 6), a function of the signal alone. The amplitudes
\* are taken from the signal's first and last sample, so that the two
\* amplitudes of a double-exponential result come in either order.
FitParams(m, y) ==
    LET first == IF Len(y) > 0 THEN y[1] ELSE 0
        last == IF Len(y) > 0 THEN y[Len(y)] ELSE 0
    IN IF m = "Exponential" THEN <<first - last, 1, last>>
       ELSE IF m = "Double_Exp" THEN <<first, 1, last, 2, 3>>
       ELSE IF m = "Str_Exp" THEN <<first - last, 1, last>>
       ELSE <<first, 1, 2, 3, 4, last>>

\* lines 181-195 applied to every signal of the chunk (self._results); popt is
\* unbound at line 195 when no branch ran
Compute ==
    /\ pc = "read"
    /\ IF fit_method \in SupportedMethods
       THEN /\ results' = [n \in DOMAIN data.val |-> FitParams(fit_method, data.val[n])]
            /\ pc' = "computed" /\ UNCHANGED err
       ELSE /\ pc' = "failed" /\ err' = "UnboundLocalError" /\ UNCHANGED results
    /\ UNCHANGED <<meta, part, start_pos, end_pos, data, write_spectra, store, hist>>

\* ------------------------------------------------------ _write_results_chunk
\* lines 198-206: the field names of the records to commit
WriteFieldNames(m) ==
    IF m = "Exponential" THEN <<"Amplitude [pm]", "Time_Constant [s]", "Offset [pm]">>
    ELSE IF m = "Double_Exp" THEN <<"Amplitude [pm]", "Time_Constant 1 [s]",
                                    "Amplitude 2 [pm]", "Time_Constant 2 [s]", "Offset [pm]">>
    ELSE IF m = "Str_Exp" THEN <<"Amplitude [pm]", "Beta", "Offset [pm]">>
    ELSE IF m = "Logistic" THEN <<"A", "K", "B", "v", "Q", "C">>
    ELSE <<>>

\* line 213, one record: the stored record old after a record with the fields
\* names and the values vec is written to it. Compound members are matched by
\* name: a member of the dataset that the written record lacks keeps its value.
ByName(old, names, vec) ==
    [f \in DOMAIN old |->
        IF \E k \in DOMAIN names : names[k] = f
        THEN vec[CHOOSE k \in DOMAIN names : names[k] = f]
        ELSE old[f]]

\* RowWrite adding to the stored values instead of replacing them
RowWriteAdd(dset, start, end, res, m) ==
    LET np == Len(dset)
        w == Len(res) \div np
        ncols == Len(dset[1])
    IN IF Len(res) % np # 0 THEN [err |-> "ValueError", dset |-> dset]
       ELSE IF w # ncols /\ w # 1 THEN [err |-> "TypeError", dset |-> dset]
       ELSE [err |-> "none",
             dset |-> [p \in 1..np |->
                 IF p - 1 >= start /\ p - 1 < end
                 THEN [c \in 1..ncols |->
                         LET new == ByName(dset[p][c], WriteFieldNames(m),
                                      res[(p - 1) * w + (IF w = ncols THEN c ELSE 1)])
                         IN [f \in DOMAIN new |-> dset[p][c][f] + new[f]]]
                 ELSE dset[p]]]

\* lines 210-213: results reshaped to (h5_results.shape[0], -1), rows
\* start..end-1 of it written to rows start..end-1 of the dataset; a source of
\* one column is broadcast over the bias columns
RowWrite(dset, start, end, res, m) ==
    LET np == Len(dset)
        w == Len(res) \div np
        ncols == Len(dset[1])
    IN IF Len(res) % np # 0 THEN [err |-> "ValueError", dset |-> dset]
       ELSE IF w # ncols /\ w # 1 THEN [err |-> "TypeError", dset |-> dset]
       ELSE [err |-> "none",
             dset |-> [p \in 1..np |->
                 IF p - 1 >= start /\ p - 1 < end
                 THEN [c \in 1..ncols |->
                         ByName(dset[p][c], WriteFieldNames(m),
                                res[(p - 1) * w + (IF w = ncols THEN c ELSE 1)])]
                 ELSE dset[p]]]

\* lines 215-227: each h5_results[name] is an array read from the dataset, so
\* the assignments of lines 224-227 change those arrays and not the dataset;
\* line 223 compares two rows of them, which has no truth value when a row has
\* more than one bias column
Canon(dset, m) ==
    IF m = "Double_Exp" /\ Len(dset[1]) > 1
    THEN [err |-> "ValueError", dset |-> dset]
    ELSE [err |-> "none", dset |-> dset]

\* lines 197-232 as one function of the file and the chunk
CommitOutcome(f, start, end, res, m) ==
    LET a == RowWrite(f.dset, start, end, res, m)
        b == Canon(a.dset, m)
    IN IF a.err # "none" THEN [err |-> a.err, file |-> f]
       ELSE IF b.err # "none" THEN [err |-> b.err, file |-> [f EXCEPT !.dset = a.dset]]
       ELSE [err |-> "none", file |-> [f EXCEPT !.dset = b.dset, !.last_pixel = end]]

\* lines 198-213; self.h5_results is unbound in an instance that resumed
WriteRows ==
    /\ pc = "computed"
    /\ commit_start' = start_pos
    /\ commit_before' = file.dset
    /\ ncommits' = ncommits + 1
    /\ IF ~h5_results_bound
       THEN /\ pc' = "commit_failed" /\ err' = "AttributeError"
            /\ UNCHANGED <<file, commits>>
       ELSE LET a == RowWrite(file.dset, start_pos, end_pos, results, fit_method)
            IN IF a.err # "none"
               THEN /\ pc' = "commit_failed" /\ err' = a.err
                    /\ UNCHANGED <<file, commits>>
               ELSE /\ pc' = "w_rows" /\ UNCHANGED err
                    /\ file' = [file EXCEPT !.dset = a.dset]
                    /\ commits' = [p \in DOMAIN commits |->
                          IF p - 1 >= start_pos /\ p - 1 < end_pos
                          THEN commits[p] + 1 ELSE commits[p]]
    /\ UNCHANGED <<meta, part, chunk, process_name, h5_results_bound, disk,
                   resumed, interrupts>>

\* lines 215-227
Canonicalize ==
    /\ pc = "w_rows"
    /\ LET b == Canon(file.dset, fit_method)
       IN /\ file' = [file EXCEPT !.dset = b.dset]
          /\ IF b.err = "none" THEN pc' = "w_canon" /\ UNCHANGED err
             ELSE pc' = "commit_failed" /\ err' = b.err
    /\ UNCHANGED <<meta, part, chunk, process_name, h5_results_bound, disk, hist>>

\* lines 230-231
UpdateCursor ==
    /\ pc = "w_canon"
    /\ file' = [file EXCEPT !.last_pixel = end_pos]
    /\ start_pos' = end_pos
    /\ pc' = "w_cursor"
    /\ UNCHANGED <<err, meta, part, end_pos, data, write_spectra, results,
                   process_name, h5_results_bound, disk, hist>>

\* line 232
Flush ==
    /\ pc = "w_cursor"
    /\ disk' = file
    /\ pc' = "written"
    /\ UNCHANGED <<err, meta, part, chunk, process_name, h5_results_bound, file, hist>>

\* ------------------------------------------------- interruption and restart
Running == {"constructed", "ready", "read", "computed", "w_rows", "w_canon",
            "w_cursor", "written"}

\* The process stops between two steps. What was written since the last flush
\* (lines 179, 232) is in the file if the file is closed on the way out, and is
\* lost if the process is killed.
Interrupt ==
    /\ pc \in Running /\ interrupts < MaxInterrupts
    /\ interrupts' = interrupts + 1
    /\ pc' = "interrupted"
    /\ \E closed \in BOOLEAN :
         /\ file' = IF closed THEN file ELSE disk
         /\ disk' = file'
    /\ UNCHANGED <<err, meta, part, chunk, process_name, h5_results_bound,
                   commit_start, commit_before, commits, resumed, ncommits>>

\* lines 7-71 again: a new instance on the same dataset, with the same arguments
Restart ==
    /\ pc = "interrupted"
    /\ pc' = "constructed" /\ err' = "none"
    /\ start_pos' = 0 /\ end_pos' = 0 /\ data' = NoData /\ write_spectra' = <<>>
    /\ results' = <<>>
    /\ process_name' = "None" /\ h5_results_bound' = FALSE
    /\ resumed' = TRUE
    /\ UNCHANGED <<meta, part, file, disk, commit_start, commit_before, commits,
                   interrupts, ncommits>>

\* ------------------------------------------- the writer driven chunk by chunk
\* lines 210-212, the inputs of a commit: the positions start..end-1 and
\* self._results, the fits of the read signals of those pixels, pixel by pixel
\* and cycle by cycle
FeedChunk ==
    /\ pc \in {"ready", "written"} /\ ncommits < MaxCommits
    /\ \E s \in 0..(num_pixels - 1) : \E e \in (s + 1)..num_pixels :
         LET sig == [n \in 1..((e - s) * no_read_offset) |->
                       SignalAt(s + (n - 1) \div no_read_offset,
                                read_inds_split[((n - 1) % no_read_offset) + 1])]
         IN /\ start_pos' = s /\ end_pos' = e
            /\ data' = [kind |-> "mixed", val |-> sig]
            /\ results' = [n \in DOMAIN sig |-> FitParams(fit_method, sig[n])]
    /\ pc' = "computed"
    /\ UNCHANGED <<err, meta, part, write_spectra, store, hist>>

Next ==
    \/ Construct \/ CreateResults \/ Resume \/ ReadChunk \/ Compute
    \/ WriteRows \/ Canonicalize \/ UpdateCursor \/ Flush
    \/ Interrupt \/ Restart

Spec == Init /\ [][Next]_vars

NextCommit ==
    \/ Construct \/ CreateResults \/ FeedChunk
    \/ WriteRows \/ Canonicalize \/ UpdateCursor \/ Flush

SpecCommit == Init /\ [][NextCommit]_vars

\* ------------------------------------------------------------------ claims
\* num_steps = C * (reads_per_cycle + writes_per_cycle)
ValidMeta == num_steps = cycles * (no_read_steps + no_write_steps)

Constructed == pc # "new"

\* the step indices of cycle c (1-based) of a valid scan
CycleBlock(c) ==
    {s \in 0..(num_steps - 1) :
        /\ s >= (c - 1) * (no_read_steps + no_write_steps)
        /\ s < c * (no_read_steps + no_write_steps)}

C2_RejectsUneven ==
    (Constructed /\ ~ValidMeta) =>
        /\ pc = "failed" /\ err # "none"
        /\ write_inds_split = <<>>

\* a chunk has just been read, or the read has just raised
ReadAttempted == pc \in {"read", "failed"} /\ data.kind # "none"

\* C3: every chunk read, whatever its size and start, yields one read signal per
\* (pixel of the chunk, cycle), of reads_per_cycle samples, built from that
\* pixel's row at that cycle's read indices only.
C3_ReadSignals ==
    (ReadAttempted /\ ValidMeta /\ starts_with \in {"write", "read"}) =>
        /\ pc = "read" /\ data.kind = "mixed"
        /\ Len(data.val) = (end_pos - start_pos) * cycles
        /\ \A i \in 0..(end_pos - start_pos - 1) : \A j \in 1..cycles :
             /\ Len(data.val[i * cycles + j]) = no_read_steps
             /\ data.val[i * cycles + j] = SignalAt(start_pos + i, read_inds_split[j])

\* C4: with starts_with 'write' or 'read', a chunk read yields for every pixel
\* and cycle a write signal of writes_per_cycle samples taken at the cycle's
\* write indices of the partition.
C4_WriteSignals ==
    (pc = "read" /\ ValidMeta /\ starts_with \in {"write", "read"}) =>
        /\ Len(write_spectra) = (end_pos - start_pos) * cycles
        /\ \A i \in 0..(end_pos - start_pos - 1) : \A j \in 1..cycles :
             /\ Len(write_spectra[i * cycles + j]) = no_write_steps
             /\ write_spectra[i * cycles + j] = SignalAt(start_pos + i, write_inds_split[j])

\* the fit of the read signal of pixel p (0-based), cycle c (1-based)
FitOf(p, c) == FitParams(fit_method, SignalAt(p, read_inds_split[c]))

\* a parameter vector as a record of the dataset: field k holds parameter k
AsRecord(m, vec) ==
    [f \in Range(CreateFieldNames(m)) |->
        vec[CHOOSE k \in DOMAIN CreateFieldNames(m) : CreateFieldNames(m)[k] = f]]

\* a double-exponential result with the smaller amplitude first, each amplitude
\* with its time constant
Canonical(m, vec) ==
    IF m = "Double_Exp" /\ vec[1] > vec[3]
    THEN <<vec[3], vec[4], vec[1], vec[2], vec[5]>>
    ELSE vec

InCommit(p) == p - 1 >= commit_start /\ p - 1 < end_pos

\* C5: with Double_Exp, after a commit completes every stored record has its
\* first amplitude <= its second, and a committed result with amplitude_1 >
\* amplitude_2 is stored with the two amplitudes and their time constants
\* swapped.
C5_Canonical ==
    (pc = "written" /\ fit_method = "Double_Exp" /\ ValidMeta) =>
        \A p \in DOMAIN file.dset : \A c \in DOMAIN file.dset[p] :
            /\ file.dset[p][c]["Amplitude [pm]"] <= file.dset[p][c]["Amplitude 2 [pm]"]
            /\ (InCommit(p) /\ FitOf(p - 1, c)[1] > FitOf(p - 1, c)[3]) =>
                  file.dset[p][c] = AsRecord(fit_method, Canonical(fit_method, FitOf(p - 1, c)))

\* C6: committing the same range with the same results a second time leaves
\* every record and last_pixel as the first commit left them.
C6_Idempotent ==
    (pc \in {"written", "commit_failed"} /\ h5_results_bound) =>
        CommitOutcome(file, commit_start, end_pos, results, fit_method).file = file

\* a commit of a part of the dataset has completed and stored non-zero records
C6_Witness ==
    /\ pc = "written" /\ end_pos - commit_start < num_pixels /\ ncommits = 2
    /\ \E p \in DOMAIN file.dset : InCommit(p) /\ file.dset[p] # commit_before[p]

\* C7: after a commit of [start, end) every row outside the range holds the
\* record it held before, and every row p of the range holds the fit results
\* of pixel p (for Double_Exp, as fitted or in canonical order).
C7_Frame ==
    (pc = "written" /\ ValidMeta) =>
        \A p \in DOMAIN file.dset :
            IF InCommit(p)
            THEN \A c \in DOMAIN file.dset[p] :
                    file.dset[p][c] \in {AsRecord(fit_method, FitOf(p - 1, c)),
                        AsRecord(fit_method, Canonical(fit_method, FitOf(p - 1, c)))}
            ELSE file.dset[p] = commit_before[p]

\* a configuration in which a run that is not interrupted commits every pixel
CleanRun ==
    /\ ValidMeta /\ starts_with \in {"write", "read"}
    /\ fit_method \in SupportedMethods \ {"Double_Exp"}
    /\ max_pos_per_read >= num_pixels

\* the file a run that is not interrupted leaves
UninterruptedFile ==
    CommitOutcome([grp |-> TRUE, last_pixel |-> 0, algorithm |-> fit_method,
                   dset |-> EmptyDataset(fit_method, num_pixels, no_read_offset)],
                  0, num_pixels,
                  [n \in 1..(num_pixels * no_read_offset) |->
                      FitOf((n - 1) \div no_read_offset, ((n - 1) % no_read_offset) + 1)],
                  fit_method).file

\* C8: a run started on the dataset of an interrupted run ends with every pixel
\* committed exactly once over both runs and with the file an uninterrupted
\* run leaves.
C8_Resumable ==
    (resumed /\ CleanRun /\ pc \in {"done", "failed", "commit_failed"}) =>
        /\ pc = "done"
        /\ \A p \in DOMAIN commits : commits[p] = 1
        /\ file = UninterruptedFile

\* C9: in every state, in the file as written and as last flushed, every pixel
\* below last_pixel has its final result in the dataset.
C9_Cursor ==
    \A f \in {file, disk} :
        (f.dset # <<>> /\ ValidMeta) =>
            \A p \in 1..f.last_pixel : \A c \in DOMAIN f.dset[p] :
                f.dset[p][c] = AsRecord(fit_method, Canonical(fit_method, FitOf(p - 1, c)))

CanonFieldNames ==
    <<"Amplitude [pm]", "Amplitude 2 [pm]", "Time_Constant [s]", "Time_Constant 2 [s]">>

\* C11: for each model the ordered field names the commit builds its records
\* with are those the results dataset was created with (3 for Exponential and
\* Str_Exp, 5 for Double_Exp, 6 for Logistic), and every field the
\* double-exponential ordering uses is one of them.
C11_SameSchema ==
    (pc \in {"w_rows", "w_canon", "w_cursor", "written"} /\ file.dset # <<>>) =>
        /\ WriteFieldNames(fit_method) = CreateFieldNames(file.algorithm)
        /\ Len(WriteFieldNames(fit_method)) =
               (IF fit_method = "Double_Exp" THEN 5
                ELSE IF fit_method = "Logistic" THEN 6 ELSE 3)
        /\ \A p \in DOMAIN file.dset : \A c \in DOMAIN file.dset[p] :
               DOMAIN file.dset[p][c] = Range(WriteFieldNames(fit_method))
        /\ fit_method = "Double_Exp" =>
               /\ Range(CanonFieldNames) \subseteq Range(WriteFieldNames(fit_method))
               /\ Range(CanonFieldNames) \subseteq Range(CreateFieldNames(file.algorithm))

====
